---- MODULE Spec2Model ----
(***************************************************************************)
(* Model of backend/app/api/routes/s3.py: the handlers list_objects,       *)
(* get_signed_url, upload_file, delete_objects and export_to_csv, the      *)
(* helpers get_folder_count and sanitize_path, and the object store they   *)
(* call through s3_client.                                                 *)
(*                                                                         *)
(* Strings (keys, prefixes, paths, tokens) are sequences of one-character  *)
(* strings, so that prefix tests, splitting on "/" and lexicographic       *)
(* order are computed, not assumed.                                        *)
(***************************************************************************)
EXTENDS Integers, Sequences, FiniteSets, TLC

VARIABLES bucket, pre, req, res, calls

vars == <<bucket, pre, req, res, calls>>

(***************************************************************************)
(* Bounds of the model.                                                    *)
(***************************************************************************)
\* The store answers a listing with at most this many entries per batch
\* (never more than MaxKeys): small, so that walks span several batches.
StorePageCap == 2
\* page and page_size are drawn from 0..MaxPage and 0..MaxPageSize.
MaxPage == 2
MaxPageSize == 2
\* Paths over the segments a, b, ., .. have at most this many segments.
MaxSegs == 3

(***************************************************************************)
(* Program constants.                                                      *)
(***************************************************************************)
FolderMaxKeys == 1000
MaxExpiresIn == 604800
DefaultExpiresIn == 3600
MAX_FILE_SIZE == 100 * 1024 * 1024

(***************************************************************************)
(* Strings.                                                                *)
(***************************************************************************)
\* Python's None where a string is expected.
None == <<"None">>

\* Python truthiness of an Optional[str]: None and "" are falsy.
Truthy(s) == s /= None /\ s /= <<>>

Ord(c) ==
  CASE c = "." -> 46
    [] c = "/" -> 47
    [] c = "a" -> 97
    [] c = "b" -> 98
    [] c = "c" -> 99
    [] c = "x" -> 120
    [] c = "y" -> 121
    [] c = "z" -> 122

Min(a, b) == IF a <= b THEN a ELSE b

StartsWith(s, p) == Len(p) <= Len(s) /\ SubSeq(s, 1, Len(p)) = p

EndsWith(s, p) ==
  Len(p) <= Len(s) /\ SubSeq(s, Len(s) - Len(p) + 1, Len(s)) = p

\* "p in s" for strings.
Contains(s, p) ==
  \E i \in 1..(Len(s) - Len(p) + 1) : SubSeq(s, i, i + Len(p) - 1) = p

\* Lexicographic (byte) order of two strings, the order the store lists in.
RECURSIVE StrLess(_, _)
StrLess(s, t) ==
  IF t = <<>> THEN FALSE
  ELSE IF s = <<>> THEN TRUE
  ELSE IF Head(s) = Head(t) THEN StrLess(Tail(s), Tail(t))
  ELSE Ord(Head(s)) < Ord(Head(t))

\* A finite set of strings as the ascending sequence.
RECURSIVE SortStrs(_)
SortStrs(S) ==
  IF S = {} THEN <<>>
  ELSE LET m == CHOOSE x \in S : \A y \in S \ {x} : StrLess(x, y)
       IN <<m>> \o SortStrs(S \ {m})

\* s.lstrip("/") and s.rstrip("/").
RECURSIVE LStripSlash(_)
LStripSlash(s) ==
  IF s /= <<>> /\ Head(s) = "/" THEN LStripSlash(Tail(s)) ELSE s

RECURSIVE RStripSlash(_)
RStripSlash(s) ==
  IF s /= <<>> /\ s[Len(s)] = "/" THEN RStripSlash(SubSeq(s, 1, Len(s) - 1))
  ELSE s

\* s.split("/"): the segments between separators (empty ones kept).
RECURSIVE SplitSlash(_)
SplitSlash(s) ==
  IF ~ Contains(s, <<"/">>) THEN <<s>>
  ELSE LET i == CHOOSE j \in 1..Len(s) :
                  s[j] = "/" /\ \A k \in 1..(j - 1) : s[k] /= "/"
       IN <<SubSeq(s, 1, i - 1)>> \o SplitSlash(SubSeq(s, i + 1, Len(s)))

\* "/".join(segs).
RECURSIVE JoinSlash(_)
JoinSlash(segs) ==
  IF segs = <<>> THEN <<>>
  ELSE IF Len(segs) = 1 THEN segs[1]
  ELSE segs[1] \o <<"/">> \o JoinSlash(Tail(segs))

\* s.replace(old, "", 1): the first occurrence of old removed.
RemoveFirst(s, old) ==
  IF old = <<>> \/ ~ Contains(s, old) THEN s
  ELSE LET i == CHOOSE j \in 1..(Len(s) - Len(old) + 1) :
                  /\ SubSeq(s, j, j + Len(old) - 1) = old
                  /\ \A k \in 1..(j - 1) : SubSeq(s, k, k + Len(old) - 1) /= old
       IN SubSeq(s, 1, i - 1) \o SubSeq(s, i + Len(old), Len(s))

(***************************************************************************)
(* sanitize_path.                                                          *)
(***************************************************************************)
\* s.replace("\\", "/").
ReplaceBackslash(s) == [i \in 1..Len(s) |-> IF s[i] = "\\" THEN "/" ELSE s[i]]

\* The component loop of os.path.normpath on a path without initial
\* slashes: "" and "." are skipped, ".." removes the component before it
\* unless there is none or it is ".." itself.
RECURSIVE NormComps(_, _)
NormComps(comps, new) ==
  IF comps = <<>> THEN new
  ELSE LET comp == Head(comps) IN
       IF comp = <<>> \/ comp = <<".">> THEN NormComps(Tail(comps), new)
       ELSE IF comp /= <<".", ".">> \/ new = <<>> \/ new[Len(new)] = <<".", ".">>
            THEN NormComps(Tail(comps), Append(new, comp))
            ELSE NormComps(Tail(comps), SubSeq(new, 1, Len(new) - 1))

\* os.path.normpath(path) for a path that does not start with "/".
normpath(path) ==
  LET joined == JoinSlash(NormComps(SplitSlash(path), <<>>))
  IN IF joined = <<>> THEN <<".">> ELSE joined

\* sanitize_path(path): [exc, value]; exc is "ValueError" when it raises.
sanitize_path(path) ==
  LET clean_path == ReplaceBackslash(normpath(LStripSlash(path)))
  IN IF StartsWith(clean_path, <<".", ".">>) \/ Contains(clean_path, <<"/", ".", ".">>)
     THEN [exc |-> "ValueError", value |-> <<>>]
     ELSE [exc |-> "none", value |-> clean_path]

(***************************************************************************)
(* The object store behind s3_client.  A listing answers with the entries  *)
(* under Prefix in ascending order, after the continuation token, at most  *)
(* min(MaxKeys, StorePageCap) of them; with a delimiter the keys that have *)
(* a "/" after the prefix are rolled up into one common prefix each.  The  *)
(* continuation token is the last entry of a truncated batch.  Size and    *)
(* LastModified are copied through by the handlers and are not modelled.   *)
(*                                                                         *)
(* A value computed once and read several times is passed on as the        *)
(* argument of the operator that reads it.                                 *)
(***************************************************************************)
\* The name a key is listed under.
ListEntry(k, p, delim) ==
  IF delim /\ Contains(SubSeq(k, Len(p) + 1, Len(k)), <<"/">>)
  THEN p \o SplitSlash(SubSeq(k, Len(p) + 1, Len(k)))[1] \o <<"/">>
  ELSE k

\* The names listed under the prefix, after the continuation token.
ListedAfter(B, params) ==
  {n \in {ListEntry(k, params.Prefix, params.Delimiter) :
            k \in {x \in B : StartsWith(x, params.Prefix)}} :
     params.HasToken => StrLess(params.Token, n)}

NoListing(exc) ==
  [exc |-> exc, CommonPrefixes |-> <<>>, Contents |-> <<>>,
   IsTruncated |-> FALSE, NextContinuationToken |-> None]

\* The answer that holds the first n of the sorted names.
ListBatch(params, sorted, n) ==
  LET IsPrefix(e) ==
        params.Delimiter /\ Contains(SubSeq(e, Len(params.Prefix) + 1, Len(e)), <<"/">>)
      IsKey(e) == ~ IsPrefix(e)
  IN [exc |-> "none",
      CommonPrefixes |-> SelectSeq(SubSeq(sorted, 1, n), IsPrefix),
      Contents |-> SelectSeq(SubSeq(sorted, 1, n), IsKey),
      IsTruncated |-> n < Len(sorted),
      NextContinuationToken |-> IF n < Len(sorted) THEN sorted[n] ELSE None]

ListAnswer(params, sorted) ==
  ListBatch(params, sorted, Min(Min(params.MaxKeys, StorePageCap), Len(sorted)))

\* s3_client.list_objects_v2(**params); fault is the error the store
\* answers with ("none": it answers).  A ContinuationToken of None is
\* refused by the client's parameter validation before any request.
ListObjectsV2(B, params, fault) ==
  IF params.HasToken /\ params.Token = None THEN NoListing("ParamValidationError")
  ELSE IF fault /= "none" THEN NoListing(fault)
  ELSE ListAnswer(params, SortStrs(ListedAfter(B, params)))

\* The record of one store call, as kept in calls.
ListCall(params) ==
  [api |-> "list_objects_v2", Prefix |-> params.Prefix,
   Delimiter |-> params.Delimiter, MaxKeys |-> params.MaxKeys,
   HasToken |-> params.HasToken, Token |-> params.Token, Keys |-> <<>>]

OtherCall(api, key, keys) ==
  [api |-> api, Prefix |-> key, Delimiter |-> FALSE, MaxKeys |-> 0,
   HasToken |-> FALSE, Token |-> None, Keys |-> keys]

\* The errors that are botocore ClientError (NoSuchBucket is a subclass).
ClientErrors == {"NoSuchBucket", "InvalidToken", "AccessDenied", "NoSuchKey", "ClientError"}

\* What can go wrong in the store during one handler: the main-th call of
\* the handler answers with error kind, or the fcAt-th listing of the
\* get_folder_count walk over fcPrefix raises.
NoFault == [kind |-> "none", main |-> 0, fcPrefix |-> None, fcAt |-> 0]

MainFault(f, n) == IF f.main = n THEN f.kind ELSE "none"

CountFault(f, prefix, n) ==
  IF f.fcPrefix = prefix /\ f.fcAt = n THEN f.kind ELSE "none"

\* params of a walk: the token is added only when it is truthy.
WalkParams(prefix, delim, continuation_token) ==
  [Prefix |-> prefix, Delimiter |-> delim, MaxKeys |-> FolderMaxKeys,
   HasToken |-> Truthy(continuation_token),
   Token |-> IF Truthy(continuation_token) THEN continuation_token ELSE None]

(***************************************************************************)
(* get_folder_count.                                                       *)
(***************************************************************************)
\* The n-th iteration of the while loop and the iterations after it:
\* FolderCountLoop calls the store, FolderCountStep reads the response.
RECURSIVE FolderCountLoop(_, _, _, _, _, _, _)
\* Mutant of FolderCountStep: the count is assigned, not accumulated.
FolderCountStepAssign(B, prefix, count, n, fault, log, response) ==
  IF response.exc /= "none"
  THEN [exc |-> response.exc, value |-> 0, calls |-> log]
  ELSE IF ~ Truthy(response.NextContinuationToken)
       THEN [exc |-> "none", value |-> Len(response.Contents), calls |-> log]
       ELSE FolderCountLoop(B, prefix, Len(response.Contents),
                            response.NextContinuationToken, n + 1, fault, log)

FolderCountStep(B, prefix, count, n, fault, log, response) ==
  IF response.exc /= "none"
  THEN [exc |-> response.exc, value |-> 0, calls |-> log]
  ELSE IF ~ Truthy(response.NextContinuationToken)
       THEN [exc |-> "none", value |-> count + Len(response.Contents), calls |-> log]
       ELSE FolderCountLoop(B, prefix, count + Len(response.Contents),
                            response.NextContinuationToken, n + 1, fault, log)

FolderCountLoop(B, prefix, count, continuation_token, n, fault, log) ==
  FolderCountStep(B, prefix, count, n, fault,
                  Append(log, ListCall(WalkParams(prefix, FALSE, continuation_token))),
                  ListObjectsV2(B, WalkParams(prefix, FALSE, continuation_token),
                                CountFault(fault, prefix, n)))

\* Mutant of FolderCountExcept: no except clause, the exception goes on.
FolderCountNoExcept(walk) == walk

\* The except clause: every exception of the walk becomes the value 0.
FolderCountExcept(walk) ==
  IF walk.exc /= "none"
  THEN [exc |-> "none", value |-> 0, calls |-> walk.calls]
  ELSE walk

get_folder_count(B, prefix, fault) ==
  FolderCountExcept(FolderCountLoop(B, prefix, 0, None, 1, fault, <<>>))

(***************************************************************************)
(* What a handler hands to the HTTP layer.  kind is "return" (status 200), *)
(* "HTTPException" (the status and detail it was raised with) or "raw"     *)
(* (an exception no except clause caught: the framework answers with an    *)
(* unclassified 500).                                                      *)
(***************************************************************************)
Outcome(kind, status, detail, log) ==
  [kind |-> kind, status |-> status, detail |-> detail, calls |-> log,
   objects |-> <<>>, hasMore |-> FALSE, nextContinuationToken |-> None,
   key |-> <<>>, count |-> 0, errors |-> <<>>, batches |-> 0]

Raise(status, detail, log) == Outcome("HTTPException", status, detail, log)

Raw(exc, log) == Outcome("raw", 500, exc, log)

(***************************************************************************)
(* list_objects.                                                           *)
(***************************************************************************)
\* folder_path.rstrip("/").split("/")[-1]
LastOf(parts) == parts[Len(parts)]

FolderName(folder_path) == LastOf(SplitSlash(RStripSlash(folder_path)))

\* The loop over response["CommonPrefixes"]: one folder row per common
\* prefix with a non-empty name, its count from get_folder_count.
\* FolderRows takes the next prefix, FolderRowsStep reads its count.
RECURSIVE FolderRows(_, _, _, _, _)
FolderRowsStep(B, prefixes, fault, rows, log, fc) ==
  IF fc.exc /= "none"
  THEN [exc |-> fc.exc, rows |-> rows, calls |-> log \o fc.calls]
  ELSE FolderRows(B, Tail(prefixes), fault,
                  Append(rows, [type |-> "folder", name |-> FolderName(Head(prefixes)),
                                path |-> Head(prefixes), count |-> fc.value]),
                  log \o fc.calls)

FolderRows(B, prefixes, fault, rows, log) ==
  IF prefixes = <<>> THEN [exc |-> "none", rows |-> rows, calls |-> log]
  ELSE IF FolderName(Head(prefixes)) = <<>>
       THEN FolderRows(B, Tail(prefixes), fault, rows, log)
       ELSE FolderRowsStep(B, prefixes, fault, rows, log,
                           get_folder_count(B, Head(prefixes), fault))

\* file_name = key.replace(prefix, "", 1).lstrip("/")
FileName(key, prefix) == LStripSlash(RemoveFirst(key, prefix))

FileRow(key, prefix) == [type |-> "file", name |-> FileName(key, prefix), path |-> key]

RowsOf(kept, prefix) == [i \in 1..Len(kept) |-> FileRow(kept[i], prefix)]

\* The loop over response["Contents"].
FileRows(contents, prefix) ==
  LET Keep(key) == /\ key /= prefix
                   /\ ~ EndsWith(key, <<"/">>)
                   /\ FileName(key, prefix) /= <<>>
  IN RowsOf(SelectSeq(contents, Keep), prefix)

\* The except clauses of list_objects, in order: NoSuchBucket, ClientError
\* (InvalidToken apart), then Exception, which also catches the
\* HTTPException raised inside the try block.
ListExcept(exc, log) ==
  IF exc = "NoSuchBucket" THEN Raise(404, "Bucket not found", log)
  ELSE IF exc \in ClientErrors
       THEN IF exc = "InvalidToken"
            THEN Raise(400, "Invalid continuation token", log)
            ELSE Raise(500, "Storage error", log)
  ELSE Raise(500, "Internal server error", log)

\* Mutant of ListParams: the listing asks for the walks' batch size.
ListParamsWalkSize(prefix, page, page_size, continuation_token) ==
  [Prefix |-> prefix, Delimiter |-> TRUE, MaxKeys |-> FolderMaxKeys,
   HasToken |-> page > 1 /\ Truthy(continuation_token),
   Token |-> IF page > 1 /\ Truthy(continuation_token) THEN continuation_token ELSE None]

\* params of the delimited listing: the token is sent only on page > 1.
ListParams(prefix, page, page_size, continuation_token) ==
  [Prefix |-> prefix, Delimiter |-> TRUE, MaxKeys |-> page_size,
   HasToken |-> page > 1 /\ Truthy(continuation_token),
   Token |-> IF page > 1 /\ Truthy(continuation_token) THEN continuation_token ELSE None]

\* The return statement, or the except clause the folder loop ended in.
ListReturn(prefix, response, folders) ==
  IF folders.exc /= "none" THEN ListExcept(folders.exc, folders.calls)
  ELSE [Outcome("return", 200, "page", folders.calls) EXCEPT
          !.objects = folders.rows \o FileRows(response.Contents, prefix),
          !.hasMore = response.IsTruncated,
          !.nextContinuationToken = response.NextContinuationToken]

\* The code after the listing call.
ListResponse(B, prefix, fault, log, response) ==
  IF response.exc /= "none" THEN ListExcept(response.exc, log)
  ELSE ListReturn(prefix, response,
                  FolderRows(B, response.CommonPrefixes, fault, <<>>, log))

ListCallStore(B, prefix, fault, params) ==
  ListResponse(B, prefix, fault, <<ListCall(params)>>,
               ListObjectsV2(B, params, MainFault(fault, 1)))

list_objects(B, prefix, page, page_size, continuation_token, fault) ==
  IF page < 1 \/ page_size < 1 THEN ListExcept("HTTPException", <<>>)
  ELSE ListCallStore(B, prefix, fault,
                     ListParams(prefix, page, page_size, continuation_token))

(***************************************************************************)
(* get_signed_url.                                                         *)
(***************************************************************************)
SignExcept(exc, log) ==
  IF exc \in ClientErrors
  THEN IF exc = "NoSuchKey" THEN Raise(404, "Object not found", log)
       ELSE IF exc = "AccessDenied" THEN Raise(403, "Access denied to the object", log)
       ELSE Raise(500, "Storage error", log)
  ELSE Raise(500, "Internal server error", log)

\* s3_client.generate_presigned_url and the return after it.
SignCall(key, exc, log) ==
  IF exc /= "none" THEN SignExcept(exc, log)
  ELSE [Outcome("return", 200, "signedUrl", log) EXCEPT !.key = key]

get_signed_url(key, expires_in, fault) ==
  IF ~ Truthy(key) THEN SignExcept("HTTPException", <<>>)
  ELSE IF expires_in < 1 \/ expires_in > MaxExpiresIn THEN SignExcept("HTTPException", <<>>)
  ELSE SignCall(key, MainFault(fault, 1), <<OtherCall("generate_presigned_url", key, <<>>)>>)

(***************************************************************************)
(* upload_file.                                                            *)
(***************************************************************************)
UploadExcept(exc, log) ==
  IF exc \in ClientErrors
  THEN IF exc = "NoSuchBucket" THEN Raise(500, "Storage bucket does not exist", log)
       ELSE IF exc = "AccessDenied" THEN Raise(403, "Insufficient permissions to upload file", log)
       ELSE Raise(500, "Storage error", log)
  ELSE IF exc = "ValueError" THEN Raise(400, "Invalid path", log)
  ELSE Raise(500, "Internal server error", log)

\* The exception the body of upload_file ends in ("none": it returns) and
\* the store calls made by then.  content_type is "given" when the client
\* sent a specific type, "generic" when it sent none or
\* application/octet-stream: the branch that reads the module mimetypes,
\* which the file never imports (NameError).  A ClientError of
\* head_object is re-raised as an HTTPException inside the try block.
UploadBody(filename, file_size, content_type, path, sanitized, putExc, headExc) ==
  IF ~ Truthy(filename) THEN [exc |-> "HTTPException", n |-> 0]
  ELSE IF ~ Truthy(path) THEN [exc |-> "HTTPException", n |-> 0]
  ELSE IF file_size > MAX_FILE_SIZE THEN [exc |-> "HTTPException", n |-> 0]
  ELSE IF file_size = 0 THEN [exc |-> "HTTPException", n |-> 0]
  ELSE IF sanitized.exc /= "none" THEN [exc |-> sanitized.exc, n |-> 0]
  ELSE IF content_type = "generic" THEN [exc |-> "NameError", n |-> 0]
  ELSE IF putExc /= "none" THEN [exc |-> putExc, n |-> 1]
  ELSE IF headExc \in ClientErrors THEN [exc |-> "HTTPException", n |-> 2]
  ELSE IF headExc /= "none" THEN [exc |-> headExc, n |-> 2]
  ELSE [exc |-> "none", n |-> 2]

\* [out, bucket] of upload_file from where its body ended: the object is
\* stored once upload_fileobj has returned.
UploadResult(B, file_size, sanitized_path, body) ==
  LET log == SubSeq(<<OtherCall("upload_fileobj", sanitized_path, <<>>),
                      OtherCall("head_object", sanitized_path, <<>>)>>, 1, body.n)
  IN [out |-> IF body.exc /= "none" THEN UploadExcept(body.exc, log)
              ELSE [Outcome("return", 200, "File uploaded successfully", log)
                      EXCEPT !.key = sanitized_path, !.count = file_size],
      bucket |-> IF body.n = 2 THEN B \cup {sanitized_path} ELSE B]

UploadSanitized(B, filename, file_size, content_type, path, fault, sanitized) ==
  UploadResult(B, file_size, sanitized.value,
               UploadBody(filename, file_size, content_type, path, sanitized,
                          MainFault(fault, 1), MainFault(fault, 2)))

upload_file(B, filename, file_size, content_type, path, fault) ==
  UploadSanitized(B, filename, file_size, content_type, path, fault, sanitize_path(path))

(***************************************************************************)
(* delete_objects.                                                         *)
(***************************************************************************)
\* The while loop of the folder branch: the listing is always called with
\* ContinuationToken=continuation_token, None on the first iteration.
\* DeleteWalk calls the store, DeleteWalkStep reads the response.
RECURSIVE DeleteWalk(_, _, _, _, _, _)
DeleteWalkStep(B, path, fault, keys, log, response) ==
  IF response.exc /= "none"
  THEN [exc |-> response.exc, keys |-> keys, calls |-> log]
  ELSE IF ~ Truthy(response.NextContinuationToken)
       THEN [exc |-> "none", keys |-> keys \o response.Contents, calls |-> log]
       ELSE DeleteWalk(B, path, response.NextContinuationToken, fault,
                       keys \o response.Contents, log)

DeleteWalkParams(path, continuation_token) ==
  [Prefix |-> path, Delimiter |-> FALSE, MaxKeys |-> FolderMaxKeys,
   HasToken |-> TRUE, Token |-> continuation_token]

DeleteWalk(B, path, continuation_token, fault, keys, log) ==
  DeleteWalkStep(B, path, fault, keys,
                 Append(log, ListCall(DeleteWalkParams(path, continuation_token))),
                 ListObjectsV2(B, DeleteWalkParams(path, continuation_token),
                               MainFault(fault, Len(log) + 1)))

\* The loop over sanitized_paths that fills objects_to_delete.
RECURSIVE DeleteCollect(_, _, _, _, _)
DeleteCollectStep(B, paths, fault, walk) ==
  IF walk.exc /= "none" THEN walk
  ELSE DeleteCollect(B, Tail(paths), fault, walk.keys, walk.calls)

DeleteCollect(B, paths, fault, keys, log) ==
  IF paths = <<>> THEN [exc |-> "none", keys |-> keys, calls |-> log]
  ELSE IF EndsWith(Head(paths), <<"/">>)
       THEN DeleteCollectStep(B, paths, fault,
                              DeleteWalk(B, Head(paths), None, fault, keys, log))
       ELSE DeleteCollect(B, Tail(paths), fault, Append(keys, Head(paths)), log)

\* s3_client.delete_objects(Delete={"Objects": keys, "Quiet": True}): the
\* keys in errKeys are reported in Errors and stay, the others are removed.
DeleteObjectsCall(B, keys, exc, errKeys) ==
  LET Failed(k) == k \in errKeys
  IN IF exc /= "none" THEN [exc |-> exc, Errors |-> <<>>, bucket |-> B]
     ELSE [exc |-> "none", Errors |-> SelectSeq(keys, Failed),
           bucket |-> B \ {keys[i] : i \in {j \in 1..Len(keys) : keys[j] \notin errKeys}}]

\* The only except clause of delete_objects is ClientError: an
\* HTTPException goes out as raised, anything else goes out uncaught.
DeleteExcept(exc, log) ==
  IF exc \in ClientErrors THEN Raise(500, "Storage error", log)
  ELSE Raw(exc, log)

\* sanitized_paths = [sanitize_path(path) for path in paths]
SanitizeAll(paths) == [i \in 1..Len(paths) |-> sanitize_path(paths[i])]

SanitizedValues(sanitized) == [i \in 1..Len(sanitized) |-> sanitized[i].value]

\* Mutant of DeleteReport: the Errors of the response are not read.
DeleteReportNoErrors(objects_to_delete, log, response) ==
  IF response.exc /= "none"
  THEN [out |-> DeleteExcept(response.exc, log), bucket |-> response.bucket]
  ELSE [out |-> [Outcome("return", 200, "Successfully deleted", log)
                   EXCEPT !.count = Len(objects_to_delete)],
        bucket |-> response.bucket]

\* The code after the batch delete call.
DeleteReport(objects_to_delete, log, response) ==
  IF response.exc /= "none"
  THEN [out |-> DeleteExcept(response.exc, log), bucket |-> response.bucket]
  ELSE IF response.Errors /= <<>>
       THEN [out |-> [Raise(500, "Failed to delete some objects", log)
                        EXCEPT !.errors = response.Errors],
             bucket |-> response.bucket]
       ELSE [out |-> [Outcome("return", 200, "Successfully deleted", log)
                        EXCEPT !.count = Len(objects_to_delete)],
             bucket |-> response.bucket]

\* The code after the loop over sanitized_paths.
DeleteCollected(B, fault, errKeys, collected) ==
  IF collected.exc /= "none"
  THEN [out |-> DeleteExcept(collected.exc, collected.calls), bucket |-> B]
  ELSE IF collected.keys = <<>>
       THEN [out |-> Outcome("return", 200, "No objects to delete", collected.calls),
             bucket |-> B]
       ELSE DeleteReport(collected.keys,
                         Append(collected.calls,
                                OtherCall("delete_objects", <<>>, collected.keys)),
                         DeleteObjectsCall(B, collected.keys,
                                           MainFault(fault, Len(collected.calls) + 1),
                                           errKeys))

DeleteSanitized(B, fault, errKeys, sanitized) ==
  IF \E i \in 1..Len(sanitized) : sanitized[i].exc /= "none"
  THEN [out |-> DeleteExcept("ValueError", <<>>), bucket |-> B]
  ELSE DeleteCollected(B, fault, errKeys,
                       DeleteCollect(B, SanitizedValues(sanitized), fault, <<>>, <<>>))

\* delete_objects(paths): [out, bucket].
delete_objects(B, paths, fault, errKeys) ==
  IF paths = <<>> THEN [out |-> Raise(400, "No paths provided", <<>>), bucket |-> B]
  ELSE DeleteSanitized(B, fault, errKeys, SanitizeAll(paths))

(***************************************************************************)
(* export_to_csv.                                                          *)
(***************************************************************************)
ExportExcept(exc, log) ==
  IF exc = "NoSuchBucket" THEN Raise(404, "Bucket not found", log)
  ELSE IF exc \in ClientErrors THEN Raise(500, "Storage error", log)
  ELSE Raise(500, "Internal server error", log)

\* The n-th iteration of the while loop and the iterations after it:
\* ExportLoop calls the store, ExportFolders runs the folder loop and
\* ExportFiles the file loop and the test that ends the walk.
RECURSIVE ExportLoop(_, _, _, _, _, _, _)
\* Mutant of ExportFiles: the walk ends after its first batch.
ExportFilesOneBatch(B, prefix, n, fault, response, folders) ==
  IF folders.exc /= "none"
  THEN [exc |-> folders.exc, objects |-> folders.rows, calls |-> folders.calls, batches |-> n]
  ELSE [exc |-> "none",
        objects |-> folders.rows \o FileRows(response.Contents, prefix),
        calls |-> folders.calls, batches |-> n]

ExportFiles(B, prefix, n, fault, response, folders) ==
  IF folders.exc /= "none"
  THEN [exc |-> folders.exc, objects |-> folders.rows, calls |-> folders.calls, batches |-> n]
  ELSE IF ~ Truthy(response.NextContinuationToken)
       THEN [exc |-> "none",
             objects |-> folders.rows \o FileRows(response.Contents, prefix),
             calls |-> folders.calls, batches |-> n]
       ELSE ExportLoop(B, prefix, response.NextContinuationToken, n + 1, fault,
                       folders.rows \o FileRows(response.Contents, prefix), folders.calls)

ExportFolders(B, prefix, n, fault, objects, log, response) ==
  IF response.exc /= "none"
  THEN [exc |-> response.exc, objects |-> objects, calls |-> log, batches |-> n]
  ELSE ExportFiles(B, prefix, n, fault, response,
                   FolderRows(B, response.CommonPrefixes, fault, objects, log))

ExportLoop(B, prefix, continuation_token, n, fault, objects, log) ==
  ExportFolders(B, prefix, n, fault, objects,
                Append(log, ListCall(WalkParams(prefix, TRUE, continuation_token))),
                ListObjectsV2(B, WalkParams(prefix, TRUE, continuation_token),
                              MainFault(fault, n)))

\* The csv holds one row per accumulated object, in the order of objects.
ExportResponse(walk) ==
  IF walk.exc /= "none" THEN ExportExcept(walk.exc, walk.calls)
  ELSE [Outcome("return", 200, "text/csv", walk.calls) EXCEPT
          !.objects = walk.objects, !.batches = walk.batches]

export_to_csv(B, prefix, fault) ==
  ExportResponse(ExportLoop(B, prefix, None, 1, fault, <<>>, <<>>))

(***************************************************************************)
(* The inputs the requests are drawn from.                                 *)
(***************************************************************************)
Empty == <<>>
Str_a == <<"a">>
Str_b == <<"b">>
Str_a_ == <<"a", "/">>
Str_c_ == <<"c", "/">>
Str_ax == <<"a", "/", "x">>
Str_ayz == <<"a", "/", "y", "/", "z">>
Str_cx == <<"c", "/", "x">>
Str__b == <<"/", "b">>

\* The keys the bucket may hold: a folder a/ with its marker object, a
\* direct child and a nested one, a top-level file, a second folder, and
\* a key that starts with the separator.
KeyUniverse == {Str_a_, Str_ax, Str_ayz, Str_b, Str_cx, Str__b}

Prefixes == {Empty, Str_a_, Str_a, Str_c_}

Tokens == {None, Empty, Str_a_, Str_ax, Str_b}

MainKinds == {"NoSuchBucket", "InvalidToken", "AccessDenied", "ClientError", "Exception"}

MainFaults(indices) ==
  {[kind |-> k, main |-> n, fcPrefix |-> None, fcAt |-> 0] : k \in MainKinds, n \in indices}

CountFaults ==
  {[kind |-> k, main |-> 0, fcPrefix |-> p, fcAt |-> n] :
     k \in {"ClientError", "Exception"}, p \in {Str_a_, Str_c_}, n \in 1..StorePageCap}

UploadPaths ==
  {Empty, Str_ax, <<"/">> \o Str_ax, <<"a", "/", ".", "/", "x">>, Str_ax \o <<"/">>,
   Str_b, <<".", ".", "/", "b">>, <<"a", "/", ".", ".", "/", "b">>, Str_cx, Str_ayz}

DeletePaths ==
  {Str_a_, Str_ax, Str_b, Str_c_, <<".", ".", "/", "b">>, <<"a", "/", ".", "/", "x", "/">>}

PathLists ==
  {<<>>} \cup {<<p>> : p \in DeletePaths} \cup {<<p, q>> : p \in DeletePaths, q \in DeletePaths}

Segments == {<<"a">>, <<"b">>, <<".">>, <<".", ".">>}

\* The paths of at most MaxSegs segments, with and without a trailing "/".
PathUniverse ==
  LET seqs == UNION {[1..n -> Segments] : n \in 1..MaxSegs}
  IN {JoinSlash(q) : q \in seqs} \cup {JoinSlash(q) \o <<"/">> : q \in seqs}

NoReq ==
  [op |-> "none", prefix |-> Empty, page |-> 0, page_size |-> 0, token |-> None,
   key |-> Empty, expires_in |-> 0, filename |-> Empty, file_size |-> 0,
   content_type |-> "given", path |-> Empty, paths |-> <<>>, fault |-> NoFault,
   errKeys |-> {}]

(***************************************************************************)
(* The requests: one action per endpoint (the /s3 and /r2 routers call the *)
(* same functions with the same arguments).                                *)
(***************************************************************************)
Init ==
  /\ bucket \in SUBSET KeyUniverse
  /\ pre = bucket
  /\ req = NoReq
  /\ res = Outcome("none", 0, "none", <<>>)
  /\ calls = <<>>

\* A request is taken when none is being answered; its answer stays in
\* req, res and calls until Respond hands it to the client.
Idle == req.op = "none"

Answer(r, out, B) ==
  /\ req' = r
  /\ res' = out
  /\ calls' = out.calls
  /\ pre' = bucket
  /\ bucket' = B

ListObjects ==
  /\ Idle
  /\ \E prefix \in Prefixes, page \in 0..MaxPage, page_size \in 0..MaxPageSize,
     token \in Tokens, fault \in {NoFault} \cup MainFaults({1}) \cup CountFaults :
    Answer([NoReq EXCEPT !.op = "list_objects", !.prefix = prefix, !.page = page,
                         !.page_size = page_size, !.token = token, !.fault = fault],
           list_objects(bucket, prefix, page, page_size, token, fault), bucket)

GetSignedUrl ==
  /\ Idle
  /\ \E key \in {Empty, Str_b},
     expires_in \in {0, 1, DefaultExpiresIn, MaxExpiresIn, MaxExpiresIn + 1},
     fault \in {NoFault} \cup MainFaults({1}) :
    Answer([NoReq EXCEPT !.op = "get_signed_url", !.key = key,
                         !.expires_in = expires_in, !.fault = fault],
           get_signed_url(key, expires_in, fault), bucket)

UploadFile ==
  /\ Idle
  /\ \E filename \in {Empty, Str_b}, path \in UploadPaths,
     file_size \in {0, 1, MAX_FILE_SIZE, MAX_FILE_SIZE + 1},
     content_type \in {"given", "generic"},
     fault \in {NoFault} \cup MainFaults({1, 2}) :
      LET up == upload_file(bucket, filename, file_size, content_type, path, fault)
    IN \* the objects stored stay among the keys of KeyUniverse
       /\ up.bucket \subseteq KeyUniverse
       /\ Answer([NoReq EXCEPT !.op = "upload_file", !.filename = filename,
                               !.path = path, !.file_size = file_size,
                               !.content_type = content_type, !.fault = fault],
                 up.out, up.bucket)

DeleteObjects ==
  /\ Idle
  /\ \E paths \in PathLists, errKeys \in {{}, {Str_ax}, {Str_b}},
     fault \in {NoFault} \cup {f \in MainFaults({1}) : f.kind \in {"ClientError", "Exception"}} :
    LET del == delete_objects(bucket, paths, fault, errKeys)
    IN Answer([NoReq EXCEPT !.op = "delete_objects", !.paths = paths,
                            !.fault = fault, !.errKeys = errKeys],
              del.out, del.bucket)

ExportToCsv ==
  /\ Idle
  /\ \E prefix \in Prefixes,
     fault \in {NoFault} \cup MainFaults(1..StorePageCap) \cup CountFaults :
    Answer([NoReq EXCEPT !.op = "export_to_csv", !.prefix = prefix, !.fault = fault],
           export_to_csv(bucket, prefix, fault), bucket)

\* The answer is serialised and handed to the client.
Respond ==
  /\ req.op /= "none"
  /\ req' = NoReq
  /\ res' = Outcome("none", 0, "none", <<>>)
  /\ calls' = <<>>
  /\ pre' = bucket
  /\ UNCHANGED bucket

Next ==
  \/ ListObjects
  \/ GetSignedUrl
  \/ UploadFile
  \/ DeleteObjects
  \/ ExportToCsv
  \/ Respond

Spec == Init /\ [][Next]_vars

(***************************************************************************)
(* sanitize_path on its own, over every path of PathUniverse.              *)
(***************************************************************************)
InitSanitize ==
  /\ bucket = {}
  /\ pre = {}
  /\ req = NoReq
  /\ res = Outcome("none", 0, "none", <<>>)
  /\ calls = <<>>

SanitizePath ==
  /\ Idle
  /\ \E path \in PathUniverse :
    LET sanitized == sanitize_path(path)
    IN Answer([NoReq EXCEPT !.op = "sanitize_path", !.path = path],
              IF sanitized.exc /= "none" THEN Raw(sanitized.exc, <<>>)
              ELSE [Outcome("return", 200, "clean_path", <<>>) EXCEPT !.key = sanitized.value],
              bucket)

NextSanitize == SanitizePath \/ Respond

SpecSanitize == InitSanitize /\ [][NextSanitize]_vars

(***************************************************************************)
(* Properties.                                                             *)
(***************************************************************************)
\* The keys of B under a prefix, at any depth.
KeysUnder(B, prefix) == {k \in B : StartsWith(k, prefix)}

\* The batch-delete calls of the answered request, and the keys they sent.
BatchDeletes == {i \in 1..Len(calls) : calls[i].api = "delete_objects"}

SentKeys == UNION {{calls[i].Keys[j] : j \in 1..Len(calls[i].Keys)} : i \in BatchDeletes}

\* The rows of the answer, by kind.
FolderRowsOf(objects) == {i \in 1..Len(objects) : objects[i].type = "folder"}

FileRowsOf(objects) == {i \in 1..Len(objects) : objects[i].type = "file"}

\* The listing calls a get_folder_count walk over K keys makes.
WalkCalls(K) ==
  LET cap == Min(FolderMaxKeys, StorePageCap)
  IN IF K = 0 THEN 1 ELSE (K + cap - 1) \div cap

\* The fault of the request makes a listing of the walk over prefix fail.
CountFaultHits(prefix) ==
  /\ req.fault.fcPrefix = prefix
  /\ req.fault.fcAt >= 1
  /\ req.fault.fcAt <= WalkCalls(Cardinality(KeysUnder(pre, prefix)))

\* C1: DeleteMany on the single path "a/" sends to the batch delete exactly
\* the keys of the bucket under "a/", and removes exactly those.
C1_DeleteFolderExact ==
  (/\ req.op = "delete_objects"
   /\ req.paths = <<Str_a_>>
   /\ req.fault = NoFault
   /\ req.errKeys = {})
  => /\ SentKeys = KeysUnder(pre, Str_a_)
     /\ pre \ bucket = KeysUnder(pre, Str_a_)

\* C2: get_folder_count never raises.  When a listing of its walk fails, on
\* the first call or after batches were counted, list_objects (called with
\* valid page and page_size) and export_to_csv still return, and the row
\* of that folder has count 0.
C2_FolderCountSoftFail ==
  (/\ req.op \in {"list_objects", "export_to_csv"}
   /\ req.fault.fcAt >= 1
   /\ req.op = "list_objects" => req.page >= 1 /\ req.page_size >= 1)
  => /\ res.kind = "return"
     /\ res.status = 200
     /\ \A i \in FolderRowsOf(res.objects) :
          CountFaultHits(res.objects[i].path) => res.objects[i].count = 0

\* A listing answered with folder a/ at count 0 because the second call of
\* the walk over its three keys failed, after the first batch was counted.
C2_Witness ==
  /\ req.op = "list_objects"
  /\ req.fault.fcPrefix = Str_a_
  /\ req.fault.fcAt = 2
  /\ Cardinality(KeysUnder(pre, Str_a_)) = 3
  /\ res.kind = "return"
  /\ \E i \in FolderRowsOf(res.objects) :
       res.objects[i].path = Str_a_ /\ res.objects[i].count = 0

\* C3: when no store call fails, the count of every folder row is the
\* number of keys of the bucket that start with the folder's prefix, at any
\* depth and over any number of batches.
C3_FolderCountExact ==
  (/\ req.op \in {"list_objects", "export_to_csv"}
   /\ req.fault = NoFault
   /\ res.kind = "return")
  => \A i \in FolderRowsOf(res.objects) :
       res.objects[i].count = Cardinality(KeysUnder(bucket, res.objects[i].path))

\* Folder a/ counted at 3 (its marker, a direct child and a nested key) in
\* a walk of more than one batch.
C3_Witness ==
  /\ req.op = "list_objects"
  /\ req.fault = NoFault
  /\ res.kind = "return"
  /\ Str_ayz \in bucket
  /\ WalkCalls(3) > 1
  /\ \E i \in FolderRowsOf(res.objects) :
       res.objects[i].path = Str_a_ /\ res.objects[i].count = 3
  /\ Len(SelectSeq(calls, LAMBDA c : c.Prefix = Str_a_ /\ ~ c.Delimiter)) > 1

\* C4: a returned page holds at most page_size objects, and hasMore is
\* false exactly when no continuation token is returned.
C4_PageBounded ==
  (req.op = "list_objects" /\ res.kind = "return")
  => /\ req.page_size >= 1
     /\ Len(res.objects) <= req.page_size
     /\ (res.hasMore = FALSE) <=> (res.nextContinuationToken = None)

\* A full page of page_size objects, folders and files, with more to come.
C4_Witness ==
  /\ req.op = "list_objects"
  /\ res.kind = "return"
  /\ req.page_size > 1
  /\ Len(res.objects) = req.page_size
  /\ FolderRowsOf(res.objects) /= {}
  /\ FileRowsOf(res.objects) /= {}
  /\ res.hasMore
  /\ Truthy(res.nextContinuationToken)

\* The cursor the first page of the same prefix and page_size returned.
FirstPageCursor ==
  ListObjectsV2(pre, [Prefix |-> req.prefix, Delimiter |-> TRUE,
                      MaxKeys |-> req.page_size, HasToken |-> FALSE, Token |-> None],
                "none").NextContinuationToken

\* C5: every list_objects call with page >= 1, page_size >= 1 and a cursor
\* issued by a prior call with the same prefix and page_size sends that
\* cursor in its listing call.
C5_CursorAlwaysSent ==
  (/\ req.op = "list_objects"
   /\ req.page >= 1
   /\ req.page_size >= 1
   /\ Truthy(req.token)
   /\ req.token = FirstPageCursor)
  => /\ calls /= <<>>
     /\ calls[1].HasToken
     /\ calls[1].Token = req.token

\* The pages a client gets that asks for page 1 without a cursor and then
\* for page k + 1 with the cursor page k returned, until hasMore is false:
\* the concatenation of their objects.
RECURSIVE ListWalk(_, _, _, _, _, _)
ListWalkStep(B, prefix, page_size, page, acc, out) ==
  IF out.kind = "return" /\ out.hasMore
  THEN ListWalk(B, prefix, page_size, page + 1, out.nextContinuationToken,
                acc \o out.objects)
  ELSE acc \o out.objects

ListWalk(B, prefix, page_size, page, token, acc) ==
  ListWalkStep(B, prefix, page_size, page, acc,
               list_objects(B, prefix, page, page_size, token, NoFault))

RowSet(objects) == {objects[i] : i \in 1..Len(objects)}

\* The same rows, each exactly once, in whatever order.
SameEntries(s, t) ==
  /\ RowSet(s) = RowSet(t)
  /\ Cardinality(RowSet(s)) = Len(s)
  /\ Cardinality(RowSet(t)) = Len(t)

\* The delimited listing calls of export_to_csv: each but the last was
\* answered with a continuation token, the last with none.
ExportEndsAtNoCursor ==
  LET mains == SelectSeq(calls, LAMBDA c : c.Delimiter)
      Cursor(c) == ListObjectsV2(bucket, [Prefix |-> c.Prefix, Delimiter |-> TRUE,
                                          MaxKeys |-> c.MaxKeys, HasToken |-> c.HasToken,
                                          Token |-> c.Token], "none").NextContinuationToken
  IN /\ Len(mains) = res.batches
     /\ Len(mains) >= 1
     /\ \A i \in 1..Len(mains) : Truthy(Cursor(mains[i])) <=> i < Len(mains)

\* The top-level folders and the direct files under a prefix.
TopFolders(B, prefix) ==
  {e \in {ListEntry(k, prefix, TRUE) : k \in KeysUnder(B, prefix)} :
     Contains(SubSeq(e, Len(prefix) + 1, Len(e)), <<"/">>)}

DirectFiles(B, prefix) ==
  {k \in KeysUnder(B, prefix) :
     k /= prefix /\ ~ Contains(SubSeq(k, Len(prefix) + 1, Len(k)), <<"/">>)}

\* Every folder of the set and every direct file is the path of exactly
\* one row, folders with the count of the keys under them, and the rows
\* hold nothing else (no key nested under a folder).
RowsAre(objects, folders, files) ==
  /\ \A f \in folders :
       Cardinality({i \in FolderRowsOf(objects) : objects[i].path = f}) = 1
  /\ \A k \in files :
       Cardinality({i \in FileRowsOf(objects) : objects[i].path = k}) = 1
  /\ \A i \in FolderRowsOf(objects) :
       /\ objects[i].path \in folders
       /\ objects[i].count = Cardinality(KeysUnder(bucket, objects[i].path))
  /\ \A i \in FileRowsOf(objects) : objects[i].path \in files

\* For keys a/x, a/y/z, b and prefix "" the rows are folder a with count 2
\* and file b.
ExportExample ==
  (bucket = {Str_ax, Str_ayz, Str_b} /\ req.prefix = Empty)
  => res.objects = <<[type |-> "folder", name |-> Str_a, path |-> Str_a_, count |-> 2],
                     [type |-> "file", name |-> Str_b, path |-> Str_b]>>

ExportAnswered ==
  /\ req.op = "export_to_csv"
  /\ req.fault = NoFault
  /\ res.kind = "return"

\* C6 as claimed: export_to_csv ends at the first answer without a cursor,
\* and the sequence of its entries equals the concatenation of the
\* list_objects pages over the same prefix, for every page_size; every
\* top-level folder and direct file appears exactly once, nested keys never.
C6_ExportEqualsListWalk ==
  ExportAnswered
  => /\ ExportEndsAtNoCursor
     /\ \A ps \in 1..MaxPageSize :
          res.objects = ListWalk(bucket, req.prefix, ps, 1, None, <<>>)
     /\ RowsAre(res.objects, TopFolders(bucket, req.prefix), DirectFiles(bucket, req.prefix))
     /\ ExportExample

\* C6 amended: export_to_csv ends at the first answer without a cursor, and
\* its entries are the entries of the list_objects pages over the same
\* prefix, each exactly once, for every page_size; in the same order when
\* the pages are as large as the export's batches.  Every top-level folder
\* with a non-empty name and every direct file appears exactly once,
\* nested keys never.
C6_ExportSameEntries ==
  ExportAnswered
  => /\ ExportEndsAtNoCursor
     /\ \A ps \in 1..MaxPageSize :
          /\ SameEntries(res.objects, ListWalk(bucket, req.prefix, ps, 1, None, <<>>))
          /\ Min(ps, StorePageCap) = Min(FolderMaxKeys, StorePageCap)
               => res.objects = ListWalk(bucket, req.prefix, ps, 1, None, <<>>)
     /\ RowsAre(res.objects,
                {f \in TopFolders(bucket, req.prefix) : FolderName(f) /= <<>>},
                DirectFiles(bucket, req.prefix))
     /\ ExportExample

\* An export of several batches with folders and files whose order is not
\* the order of the one-object pages.
C6_Witness ==
  /\ ExportAnswered
  /\ res.batches > 1
  /\ FolderRowsOf(res.objects) /= {}
  /\ FileRowsOf(res.objects) /= {}
  /\ res.objects /= ListWalk(bucket, req.prefix, 1, 1, None, <<>>)

\* The requests that fail validation.
InvalidListing == req.op = "list_objects" /\ req.page_size < 1

InvalidSign ==
  /\ req.op = "get_signed_url"
  /\ \/ req.key = Empty
     \/ req.expires_in < 1
     \/ req.expires_in > MaxExpiresIn

InvalidUpload ==
  /\ req.op = "upload_file"
  /\ \/ req.filename = Empty
     \/ req.path = Empty
     \/ req.file_size = 0
     \/ req.file_size > MAX_FILE_SIZE

\* C7: every request that fails validation is answered with status 400
\* before any store call; get_signed_url with a key and expires_in 1 or
\* 604800 succeeds when the store does.
C7_ValidationIs400 ==
  /\ (InvalidListing \/ InvalidSign \/ InvalidUpload)
       => res.status = 400 /\ calls = <<>>
  /\ (/\ req.op = "get_signed_url"
      /\ req.key /= Empty
      /\ req.expires_in \in {1, MaxExpiresIn}
      /\ req.fault = NoFault)
       => res.status = 200

\* C8: sanitize_path rejects a path whose normalized form still holds a
\* ".." segment; an accepted path comes back without "." segments and with
\* its trailing separator, and a/./b/ comes back as a/b/.
C8_SanitizeNormalizes ==
  req.op = "sanitize_path"
  => LET comps == NormComps(SplitSlash(LStripSlash(req.path)), <<>>)
     IN /\ (\E i \in 1..Len(comps) : comps[i] = <<".", ".">>) => res.kind = "raw"
        /\ res.kind = "return"
             => /\ \A i \in 1..Len(comps) : comps[i] /= <<".">>
                /\ EndsWith(req.path, <<"/">>) => EndsWith(res.key, <<"/">>)
        /\ req.path = <<"a", "/", ".", "/", "b", "/">>
             => res.kind = "return" /\ res.key = <<"a", "/", "b", "/">>

\* C9: delete_objects with an empty paths list, or with a path that fails
\* sanitization, is answered with an HTTPException of status 400 and the
\* bucket is unchanged.
C9_DeleteRejects400 ==
  (/\ req.op = "delete_objects"
   /\ \/ req.paths = <<>>
      \/ \E i \in 1..Len(req.paths) : sanitize_path(req.paths[i]).exc /= "none")
  => /\ res.kind = "HTTPException"
     /\ res.status = 400
     /\ bucket = pre

\* The deletion set of the answered delete_objects request.
DeletionSet ==
  DeleteCollect(pre, SanitizedValues(SanitizeAll(req.paths)), NoFault, <<>>, <<>>).keys

\* C10: with a non-empty deletion set delete_objects issues one batch
\* delete of it; when the store reports errors the answer is an
\* HTTPException of status 500 that names every reported key, otherwise
\* it returns the size of the deletion set as the count.  With an empty
\* deletion set it returns the no-op message and issues no batch delete.
C10_DeleteFollowsReport ==
  (/\ req.op = "delete_objects"
   /\ req.fault = NoFault
   /\ req.paths /= <<>>
   /\ \A i \in 1..Len(req.paths) : sanitize_path(req.paths[i]).exc = "none")
  => IF DeletionSet = <<>>
     THEN /\ res.kind = "return"
          /\ res.detail = "No objects to delete"
          /\ BatchDeletes = {}
     ELSE /\ Cardinality(BatchDeletes) = 1
          /\ \A i \in BatchDeletes : calls[i].Keys = DeletionSet
          /\ IF \E j \in 1..Len(DeletionSet) : DeletionSet[j] \in req.errKeys
             THEN /\ res.kind = "HTTPException"
                  /\ res.status = 500
                  /\ res.detail = "Failed to delete some objects"
                  /\ res.errors = SelectSeq(DeletionSet, LAMBDA k : k \in req.errKeys)
             ELSE /\ res.kind = "return"
                  /\ res.detail = "Successfully deleted"
                  /\ res.count = Len(DeletionSet)

\* A batch delete of two keys of which the store reports one.
C10_Witness ==
  /\ req.op = "delete_objects"
  /\ req.fault = NoFault
  /\ Len(DeletionSet) = 2
  /\ res.status = 500
  /\ res.errors = <<Str_ax>>
  /\ Str_ax \in bucket
  /\ Str_b \in pre \ bucket

====
